---- MODULE Spec2Model ----
(***************************************************************************)
(* Client-side identity resolution, login and team API-key issuance for a  *)
(* Dependency-Track server (Dependency-Track_Plugin/Dependency-Track_      *)
(* Scripts).  Each script run is a sequence of blocking HTTP calls; the    *)
(* server's answers are the inputs of the steps.                           *)
(*                                                                         *)
(* Python strings are sequences of one-character strings, so that lower()  *)
(* and strip() are computed and not assumed.  A JSON object is a record    *)
(* whose DOMAIN is the set of keys present, so dict.get(key, default) is   *)
(* decided by key membership.                                              *)
(***************************************************************************)
EXTENDS Naturals, Sequences, FiniteSets, TLC

VARIABLES
    identifier,   \* args.user of dt_user_login.py / dt_fetch_teams_for_user.py
    password,     \* args.password of dt_user_login.py
    login,        \* the run of authenticate_with_identifier and its client object
    twin,         \* the same run fed the same answers with a plain token payload
    loginMain,    \* the run of dt_user_login.py main around authenticate_with_identifier
    lookup,       \* the run of dt_fetch_teams_for_user.py main
    teams,        \* the server's team list (GET /v1/team)
    validKeys,    \* the server's active API keys, as [uuid, key] pairs
    serial,       \* the server's count of keys minted so far
    clock,        \* datetime.now().timestamp(), advancing between calls
    issue,        \* per caller: the run of generate_api_key_for_team
    issued,       \* the successful issuances, in the order the server served them
    decoder,      \* a call of decode_jwt_payload on the text of a token
    shared,       \* one client object used by a thread that logs in and one that reads
    cli,          \* a run of generate_api_key_for_team of the command-line scripts
    web           \* the web front-end: one browser session and its last request

vars == <<identifier, password, login, twin, loginMain, lookup, teams, validKeys,
          serial, clock, issue, issued, decoder, shared, cli, web>>

----------------------------------------------------------------------------
(* Bounds *)

\* longest identity list the directory returns
MaxUsers == 2
\* longest team list the directory returns
MaxTeams == 2
\* number of dt_generate_api_key.py runs the callers start, all together
MaxCalls == 2

----------------------------------------------------------------------------
(* Strings *)

\* str.lower() on one character
LowerChar(c) ==
    CASE c = "A" -> "a"
      [] c = "B" -> "b"
      [] c = "C" -> "c"
      [] c = "E" -> "e"
      [] c = "N" -> "n"
      [] c = "O" -> "o"
      [] c = "S" -> "s"
      [] c = "Y" -> "y"
      [] OTHER   -> c

\* str.lower()
lower(s) == [i \in DOMAIN s |-> LowerChar(s[i])]

IsSpace(c) == c = " "

\* str.lstrip(): drop leading whitespace only
lstrip(s) ==
    LET keep == {i \in DOMAIN s : ~IsSpace(s[i])} IN
    IF keep = {} THEN <<>>
    ELSE SubSeq(s, CHOOSE i \in keep : \A j \in keep : i <= j, Len(s))

\* str.strip(): drop leading and trailing whitespace
strip(s) ==
    LET keep == {i \in DOMAIN s : ~IsSpace(s[i])} IN
    IF keep = {} THEN <<>>
    ELSE LET lo == CHOOSE i \in keep : \A j \in keep : i <= j
             hi == CHOOSE i \in keep : \A j \in keep : j <= i
         IN  SubSeq(s, lo, hi)

\* the `in` operator for a character: '@' in identifier
Contains(s, c) == \E i \in DOMAIN s : s[i] = c

\* dict.get(key, default)
get(d, key, default) == IF key \in DOMAIN d THEN d[key] ELSE default

HasKey(d, key) == key \in DOMAIN d

\* smallest member of a non-empty set of positions: the first loop iteration that returns
FirstOf(S) == CHOOSE i \in S : \A j \in S : i <= j

\* all sequences over S of length at most n
SeqsUpTo(S, n) == UNION {[1..k -> S] : k \in 0..n}

----------------------------------------------------------------------------
(* Inputs: what the command line and the server can supply *)

\* --user values: usernames and e-mails in several letter cases, with and without
\* surrounding whitespace, and the empty string
IdentPool ==
    { <<"a">>, <<"A">>, <<" ", "a">>, <<"b">>,
      <<"a", "@">>, <<"A", "@">>, <<"a", "@", " ">>, <<"b", "@">>, <<" ">> }

PasswordPool == { "pw1", "pw2" }

\* identity objects of GET /v1/user/managed.  An e-mail or username key may be
\* missing or empty; a username may be the e-mail of another identity and an
\* e-mail the username of another, or the identity's own e-mail.
UserPool ==
    { [username |-> <<"a">>,      email |-> <<"a", "@">>],
      [username |-> <<"b", "@">>, email |-> <<"b", "@">>],
      [username |-> <<"b">>,      email |-> <<"A", "@">>],
      [username |-> <<"B">>,      email |-> <<"a">>],
      [username |-> <<"a", "@">>, email |-> <<"b", "@">>],
      [username |-> <<"A">>,      email |-> <<>>],
      [username |-> <<>>,         email |-> <<"a", "@">>],
      [username |-> <<"b">>],
      [email |-> <<"b", "@">>] }

UserLists == SeqsUpTo(UserPool, MaxUsers)

\* the answer to a directory request: the list, or a failed request
\* (_make_request raising DependencyTrackAPIError)
DirAnswers(lists) ==
    { [ok |-> TRUE, list |-> l] : l \in lists } \cup { [ok |-> FALSE, list |-> <<>>] }

----------------------------------------------------------------------------
(* Identity Resolver: dt_fetch_teams_for_user.py *)

\* get_all_users: User(username=user_data.get('username', ''), email=user_data.get('email', ''))
get_all_users(list) ==
    [i \in DOMAIN list |->
        [username |-> get(list[i], "username", <<>>),
         email    |-> get(list[i], "email", <<>>)]]

\* the loop's test on one user: username first, then e-mail, both on the same user
MatchesUsername(user, identifier_lower) ==
    user.username # <<>> /\ lower(user.username) = identifier_lower

MatchesEmail(user, identifier_lower) ==
    user.email # <<>> /\ lower(user.email) = identifier_lower

\* get_user_by_username_or_email: the first user, in list order, that matches by
\* username or by e-mail; None when the loop ends
get_user_by_username_or_email(list, ident) ==
    LET all_users        == get_all_users(list)
        identifier_lower == strip(lower(ident))
        hits == {i \in DOMAIN all_users :
                    \/ MatchesUsername(all_users[i], identifier_lower)
                    \/ MatchesEmail(all_users[i], identifier_lower)}
    IN  IF hits = {} THEN [found |-> FALSE, index |-> 0]
        ELSE [found |-> TRUE, index |-> FirstOf(hits)]

\* a main that compares the username with args.user.lower(), not stripped
FetchTeamsResultUnstripped(answer, ident) ==
    IF ~answer.ok THEN [kind |-> "error", error |-> "api_error", index |-> 0, found_by |-> "none"]
    ELSE LET user == get_user_by_username_or_email(answer.list, ident) IN
         IF ~user.found
         THEN [kind |-> "error", error |-> "not_found", index |-> 0, found_by |-> "none"]
         ELSE [kind |-> "user", error |-> "none", index |-> user.index,
               found_by |-> IF lower(get_all_users(answer.list)[user.index].username)
                                   = lower(ident)
                            THEN "username" ELSE "email"]

\* main of dt_fetch_teams_for_user.py: the JSON object it prints
FetchTeamsResult(answer, ident) ==
    IF ~answer.ok THEN [kind |-> "error", error |-> "api_error", index |-> 0, found_by |-> "none"]
    ELSE LET user == get_user_by_username_or_email(answer.list, ident) IN
         IF ~user.found
         THEN [kind |-> "error", error |-> "not_found", index |-> 0, found_by |-> "none"]
         ELSE [kind |-> "user", error |-> "none", index |-> user.index,
               found_by |-> IF lower(get_all_users(answer.list)[user.index].username)
                                   = strip(lower(ident))
                            THEN "username" ELSE "email"]

LookupOff == [pc |-> "off", answer |-> [ok |-> FALSE, list |-> <<>>],
               result |-> [kind |-> "none", error |-> "none", index |-> 0, found_by |-> "none"]]

\* one run of dt_fetch_teams_for_user.py
FetchTeamsMain ==
    /\ lookup.pc = "start"
    /\ \E answer \in DirAnswers(UserLists) :
          lookup' = [pc |-> "done", answer |-> answer,
                     result |-> FetchTeamsResult(answer, identifier)]
    /\ UNCHANGED <<identifier, password, login, twin, loginMain, teams, validKeys,
                   serial, clock, issue, issued, decoder, shared, cli, web>>

----------------------------------------------------------------------------
(* Bearer tokens and the answers of POST /v1/user/login *)

\* what the second segment of a token decodes to: not decodable, an empty map, a
\* JSON value that is no map, or a map holding `sub` and maybe `iat` and `exp`,
\* each a number or a string
ClaimKinds == {"absent", "number", "string"}

PayloadPool ==
    { [json |-> "undecodable", iat |-> "absent", exp |-> "absent"],
      [json |-> "empty_map",   iat |-> "absent", exp |-> "absent"],
      [json |-> "list",        iat |-> "absent", exp |-> "absent"] }
    \cup { [json |-> "map", iat |-> i, exp |-> e] : i \in ClaimKinds, e \in ClaimKinds }

PlainPayload == [json |-> "map", iat |-> "number", exp |-> "number"]

\* response bodies: text that does not start with eyJ, and eyJ tokens of two or
\* three dot-separated segments
BodyPool ==
    { [eyJ |-> FALSE, parts |-> 1, payload |-> PlainPayload],
      [eyJ |-> TRUE,  parts |-> 2, payload |-> PlainPayload] }
    \cup { [eyJ |-> TRUE, parts |-> 3, payload |-> p] : p \in PayloadPool }

\* self.jwt_token = None
NoToken == [eyJ |-> FALSE, parts |-> 0, payload |-> PlainPayload]

\* an answer to requests.post: no answer at all (RequestException), or a status and a body
AuthAnswers ==
    { [net |-> FALSE, status |-> 0, body |-> NoToken] }
    \cup { [net |-> TRUE, status |-> 401, body |-> NoToken] }
    \cup { [net |-> TRUE, status |-> 200, body |-> b] : b \in BodyPool }

\* the same answer carrying a token whose payload is a plain map
WithPlainPayload(answer) ==
    IF answer.body.eyJ /\ answer.body.parts = 3
    THEN [answer EXCEPT !.body.payload = PlainPayload]
    ELSE answer

\* decode_jwt_payload: None unless the token has three segments and the second
\* one decodes to JSON
decode_jwt_payload(token) ==
    IF token.parts # 3 THEN [some |-> FALSE, val |-> PlainPayload]
    ELSE IF token.payload.json = "undecodable" THEN [some |-> FALSE, val |-> PlainPayload]
    ELSE [some |-> TRUE, val |-> token.payload]

\* `if payload:` - None and the empty map are false
Truthy(payload) == payload.some /\ payload.val.json # "empty_map"

\* the three logger.debug f-strings of _authenticate, evaluated eagerly:
\* payload.get needs a map, datetime.fromtimestamp needs a number
TokenLogRaises(payload) ==
    \/ payload.val.json # "map"
    \/ payload.val.iat = "string"
    \/ payload.val.exp = "string"

\* an _authenticate that updates the session headers after the inspection of
\* the payload, so that an exception raised there leaves the old header
_authenticate_header_last(c, answer) ==
    IF ~answer.net THEN [client |-> c, exc |-> "api"]
    ELSE IF answer.status # 200 THEN [client |-> c, exc |-> "api"]
    ELSE IF ~answer.body.eyJ THEN [client |-> c, exc |-> "api"]
    ELSE LET payload == decode_jwt_payload(answer.body) IN
         IF Truthy(payload) /\ TokenLogRaises(payload)
         THEN [client |-> [jwt_token |-> answer.body, authorization |-> c.authorization],
               exc |-> "other"]
         ELSE [client |-> [jwt_token |-> answer.body, authorization |-> answer.body],
               exc |-> "none"]

\* _authenticate on the client fields c = [jwt_token, authorization]:
\* exc is "none", "api" (DependencyTrackAPIError) or "other" (any other exception)
_authenticate(c, answer) ==
    IF ~answer.net THEN [client |-> c, exc |-> "api"]
    ELSE IF answer.status # 200 THEN [client |-> c, exc |-> "api"]
    ELSE IF ~answer.body.eyJ THEN [client |-> c, exc |-> "api"]
    ELSE LET stored  == [jwt_token |-> answer.body, authorization |-> answer.body]
             payload == decode_jwt_payload(answer.body)
         IN  IF Truthy(payload) /\ TokenLogRaises(payload)
             THEN [client |-> stored, exc |-> "other"]
             ELSE [client |-> stored, exc |-> "none"]

----------------------------------------------------------------------------
(* Authenticator: dt_user_login.py *)

NoStr == [some |-> FALSE, val |-> <<>>]

\* get_username_from_email: the loop stops at the first identity without an
\* e-mail key (None.lower() raises, caught by `except Exception`) or whose
\* e-mail matches; a failed request is caught the same way
get_username_from_email(answer, email) ==
    IF ~answer.ok THEN NoStr
    ELSE LET all_users   == answer.list
             email_lower == strip(lower(email))
             stops == {i \in DOMAIN all_users :
                          \/ ~HasKey(all_users[i], "email")
                          \/ lower(all_users[i].email) = email_lower}
         IN  IF stops = {} THEN NoStr
             ELSE LET user_data == all_users[FirstOf(stops)] IN
                  IF ~HasKey(user_data, "email") THEN NoStr
                  ELSE IF ~HasKey(user_data, "username") THEN NoStr
                  ELSE [some |-> TRUE, val |-> user_data.username]

\* `if username:` - None and '' are false
TruthyStr(s) == s.some /\ s.val # <<>>

NoResult == [kind |-> "none", username |-> <<>>, error |-> "none"]
Returned(username) == [kind |-> "returned", username |-> username, error |-> "none"]
Raised(error) == [kind |-> "raised", username |-> <<>>, error |-> error]

LoginOff == [pc |-> "off", jwt_token |-> NoToken, authorization |-> NoToken,
             username |-> <<>>, result |-> NoResult, calls |-> <<>>]

\* DependencyTrackClient.__init__ followed by the call of authenticate_with_identifier
LoginStart == [LoginOff EXCEPT !.pc = "direct"]

AuthCall(username, pw, answer) ==
    [op |-> "auth", username |-> username, password |-> pw, answer |-> answer]

DirCall(answer) == [op |-> "dir", list |-> answer.list, ok |-> answer.ok]

\* a fallback that looks every identifier up, with or without '@'
AfterDirectFailureAlwaysLookup(l, ident) == [l EXCEPT !.pc = "lookup"]

\* where authenticate_with_identifier goes when the direct attempt raised
\* DependencyTrackAPIError: the e-mail lookup, or the final raise
AfterDirectFailure(l, ident) ==
    IF Contains(ident, "@")
    THEN [l EXCEPT !.pc = "lookup"]
    ELSE [l EXCEPT !.pc = "done", !.result = Raised("auth_failed")]

\* the value authenticate_with_identifier returns after the direct attempt
DirectReturn(ident) == Returned(ident)

\* lines 191-197 and 213-214: the direct attempt with the identifier as username
DirectStep(l, ident, pw, answer) ==
    LET a == _authenticate([jwt_token |-> l.jwt_token, authorization |-> l.authorization],
                           answer)
        m == [l EXCEPT !.jwt_token = a.client.jwt_token,
                       !.authorization = a.client.authorization,
                       !.calls = Append(l.calls, AuthCall(ident, pw, answer))]
    IN  CASE a.exc = "none"  -> [m EXCEPT !.pc = "done", !.result = DirectReturn(ident)]
          [] a.exc = "api"   -> AfterDirectFailure(m, ident)
          [] a.exc = "other" -> [m EXCEPT !.pc = "done", !.result = Raised("crash")]

\* a lookup that falls back to the literal identifier when it finds no username
LookupStepRetryLiteral(l, ident, answer) ==
    LET username == get_username_from_email(answer, ident)
        m == [l EXCEPT !.calls = Append(l.calls, DirCall(answer))]
    IN  [m EXCEPT !.pc = "retry",
                  !.username = IF TruthyStr(username) THEN username.val ELSE ident]

\* lines 200-202 and 210-211: the e-mail lookup and the raise when it gives no username
LookupStep(l, ident, answer) ==
    LET username == get_username_from_email(answer, ident)
        m == [l EXCEPT !.calls = Append(l.calls, DirCall(answer))]
    IN  IF TruthyStr(username)
        THEN [m EXCEPT !.pc = "retry", !.username = username.val]
        ELSE [m EXCEPT !.pc = "done", !.result = Raised("no_username")]

\* the arguments of the second _authenticate call
RetryArgs(l, pw) == [username |-> l.username, password |-> pw]

\* lines 203-209: the retry with the looked-up username
RetryStep(l, pw, answer) ==
    LET args == RetryArgs(l, pw)
        a == _authenticate([jwt_token |-> l.jwt_token, authorization |-> l.authorization],
                           answer)
        m == [l EXCEPT !.jwt_token = a.client.jwt_token,
                       !.authorization = a.client.authorization,
                       !.calls = Append(l.calls,
                                        AuthCall(args.username, args.password, answer))]
    IN  CASE a.exc = "none"  -> [m EXCEPT !.pc = "done", !.result = Returned(l.username)]
          [] a.exc = "api"   -> [m EXCEPT !.pc = "done", !.result = Raised("resolved_rejected")]
          [] a.exc = "other" -> [m EXCEPT !.pc = "done", !.result = Raised("crash")]

LoginFrame == UNCHANGED <<identifier, password, lookup, teams, validKeys, serial,
                          clock, issue, issued, decoder, shared, cli, web>>

\* authenticate_with_identifier runs inside main, which waits for it
AuthFrame == LoginFrame /\ UNCHANGED loginMain

DirectAttempt ==
    /\ login.pc = "direct"
    /\ \E answer \in AuthAnswers :
          /\ login' = DirectStep(login, identifier, password, answer)
          /\ twin'  = DirectStep(twin, identifier, password, WithPlainPayload(answer))
    /\ AuthFrame

ResolveByEmail ==
    /\ login.pc = "lookup"
    /\ \E answer \in DirAnswers(UserLists) :
          /\ login' = LookupStep(login, identifier, answer)
          /\ twin'  = LookupStep(twin, identifier, answer)
    /\ AuthFrame

RetryWithResolvedUsername ==
    /\ login.pc = "retry"
    /\ \E answer \in AuthAnswers :
          /\ login' = RetryStep(login, password, answer)
          /\ twin'  = RetryStep(twin, password, WithPlainPayload(answer))
    /\ AuthFrame

----------------------------------------------------------------------------
(* dt_user_login.py main: authenticate, search the directory, print one object *)

\* get_user_by_username_or_email of dt_user_login.py (lines 245-291): the first
\* user_data whose username or e-mail, '' when the key is missing, lowercased,
\* equals the normalised identifier
login_get_user_by_username_or_email(list, ident) ==
    LET identifier_lower == strip(lower(ident))
        hits == {i \in DOMAIN list :
                    \/ lower(get(list[i], "username", <<>>)) = identifier_lower
                    \/ lower(get(list[i], "email", <<>>)) = identifier_lower}
    IN  IF hits = {} THEN [found |-> FALSE, index |-> 0]
        ELSE [found |-> TRUE, index |-> FirstOf(hits)]

\* the objects main prints: {"success": False, "message": ...} and
\* {"success": True, ..., "username": ..., "authenticated_as": ...}
MainFailure(message) ==
    [success |-> FALSE, message |-> message, index |-> 0, username |-> <<>>,
     authenticated_as |-> <<>>]

MainSuccess(list, index, actual_username) ==
    [success |-> TRUE, message |-> "found", index |-> index,
     username |-> get(list[index], "username", <<>>),
     authenticated_as |-> actual_username]

MainOff == [pc |-> "off", answer |-> [ok |-> FALSE, list |-> <<>>], stdout |-> <<>>,
            code |-> 0]

\* the identity list does not change during one run: the search is answered
\* with the list the e-mail lookup was answered with, if there was one
SearchLists ==
    LET seen == {login.calls[i].list :
                    i \in {j \in DOMAIN login.calls :
                              login.calls[j].op = "dir" /\ login.calls[j].ok}}
    IN  IF seen = {} THEN UserLists ELSE seen

MainFrame == LoginFrame /\ UNCHANGED <<login, twin>>

\* lines 346, 369-376: authenticate_with_identifier raised; main prints the
\* failure and exits 1
MainAuthError ==
    /\ loginMain.pc = "run"
    /\ login.pc = "done"
    /\ login.result.kind = "raised"
    /\ loginMain' = [loginMain EXCEPT !.pc = "exit", !.code = 1,
                        !.stdout = Append(@, MainFailure(login.result.error))]
    /\ MainFrame

\* lines 349-376: the search for args.user and the object printed for it
MainSearch ==
    /\ loginMain.pc = "run"
    /\ login.pc = "done"
    /\ login.result.kind = "returned"
    /\ \E answer \in DirAnswers(SearchLists) :
          LET user == login_get_user_by_username_or_email(answer.list, identifier) IN
          loginMain' =
             [pc |-> "exit", answer |-> answer,
              code |-> IF answer.ok /\ user.found THEN 0 ELSE 1,
              stdout |-> Append(loginMain.stdout,
                           IF ~answer.ok THEN MainFailure("api_error")
                           ELSE IF ~user.found THEN MainFailure("not_found")
                           ELSE MainSuccess(answer.list, user.index,
                                            login.result.username))]
    /\ MainFrame

----------------------------------------------------------------------------
(* Team Credential Issuer: dt_generate_api_key.py *)

\* the processes that run dt_generate_api_key.py against the same server
Callers == {"c1", "c2"}

\* team objects of GET /v1/team; uuid is the server's key, the name key may be missing
TeamPool ==
    { [uuid |-> "u1", name |-> <<"a">>],
      [uuid |-> "u2", name |-> <<"A">>],
      [uuid |-> "u3", name |-> <<"b">>],
      [uuid |-> "u4"] }

\* --team values: a name in another letter case than the server's, and a name
\* no team has
TeamNamePool == { <<"A">>, <<"c">> }

\* what the operator types at the prompt
ConfirmPool == { <<"y">>, <<"Y", "E", "S">>, <<" ", "y", " ">>, <<"n">>, <<>> }

\* team lists in which every uuid occurs once
TeamLists == {l \in SeqsUpTo(TeamPool, MaxTeams) :
                 \A i, j \in DOMAIN l : l[i].uuid = l[j].uuid => i = j}

NoKey == [kind |-> "none", uuid |-> "-", n |-> 0]

\* the n-th key the server mints
ServerKey(n) == [kind |-> "server", uuid |-> "-", n |-> n]

\* the server's "replace key": the team's former keys stop being valid, the new one starts
ServerRotate(keys, uuid, key) ==
    {v \in keys : v.uuid # uuid} \cup {[uuid |-> uuid, key |-> key]}

\* answers to PUT /v1/team/{uuid}/key.  served: the server replaced the key;
\* ok: _make_request returned a response (no transport failure, timeout or HTTP
\* error status); body: a JSON object with a key field, one without, an empty
\* body, or a bare quoted string
RotateAnswers ==
    { [served |-> s, ok |-> FALSE, body |-> "none"] : s \in BOOLEAN }
    \cup { [served |-> TRUE, ok |-> TRUE, body |-> "key"] }
    \cup { [served |-> s, ok |-> TRUE, body |-> b] :
              s \in BOOLEAN, b \in {"no_key_field", "empty", "quoted"} }

\* the `in` operator for a string: part in whole
IsSubstring(part, whole) ==
    \E k \in 0..Len(whole) :
        k + Len(part) <= Len(whole) /\ SubSeq(whole, k + 1, k + Len(part)) = part

\* a find_team_by_name that tests containment, `name in team_name`, not equality
find_team_by_name_in(list, team_name) ==
    LET hits == {i \in DOMAIN list :
                    IsSubstring(lower(get(list[i], "name", <<>>)), lower(team_name))}
    IN  IF hits = {} THEN [found |-> FALSE, index |-> 0]
        ELSE [found |-> TRUE, index |-> FirstOf(hits)]

\* a find_team_by_name whose loop keeps the last team that matches
find_team_by_name_last(list, team_name) ==
    LET hits == {i \in DOMAIN list :
                    lower(get(list[i], "name", <<>>)) = lower(team_name)}
    IN  IF hits = {} THEN [found |-> FALSE, index |-> 0]
        ELSE [found |-> TRUE, index |-> CHOOSE i \in hits : \A j \in hits : j <= i]

\* find_team_by_name: the first team whose name equals team_name, both lowercased
find_team_by_name(list, team_name) ==
    LET hits == {i \in DOMAIN list :
                    lower(get(list[i], "name", <<>>)) = lower(team_name)}
    IN  IF hits = {} THEN [found |-> FALSE, index |-> 0]
        ELSE [found |-> TRUE, index |-> FirstOf(hits)]

\* a default that leaves the timestamp out
FallbackKeyNoTimestamp(team_uuid, now) == [kind |-> "fallback", uuid |-> team_uuid, n |-> 0]

\* the default of api_key_data.get('key', ...): f"DT-Token-{team_uuid}-{datetime.now().timestamp()}"
FallbackKey(team_uuid, now) == [kind |-> "fallback", uuid |-> team_uuid, n |-> now]

\* generate_api_key after _make_request: the key it returns or the exception it raises;
\* minted is the key field the server put in the body
generate_api_key(team_uuid, answer, minted, now) ==
    IF ~answer.ok THEN [exc |-> "api", key |-> NoKey]
    ELSE IF answer.body = "empty" THEN [exc |-> "api", key |-> NoKey]
    ELSE IF answer.body = "quoted" THEN [exc |-> "other", key |-> NoKey]
    ELSE IF answer.body = "key" THEN [exc |-> "none", key |-> minted]
    ELSE [exc |-> "none", key |-> FallbackKey(team_uuid, now)]

\* input(...).strip().lower() in ['yes', 'y']
Confirmed(response) ==
    lower(strip(response)) \in { <<"y", "e", "s">>, <<"y">> }

NoOutcome == [kind |-> "none", key |-> NoKey, error |-> "none"]

IssueOff == [pc |-> "off", run |-> 0, team_name |-> <<>>, auto_confirm |-> FALSE,
             listed |-> "none", uuid |-> "-", puts |-> 0, rotations |-> 0, body |-> "none",
             put_uuid |-> "-", stdout |-> <<>>, result |-> NoOutcome,
             started_at |-> 0, put_at |-> 0, served_as |-> 0, response |-> <<>>]

IssueIdle == [IssueOff EXCEPT !.pc = "idle"]

\* a caller that sends the PUT again when it failed
AfterRotateErrorRetry == "rotate"

\* where generate_api_key_for_team goes after generate_api_key raised
\* DependencyTrackAPIError: it prints the error and returns False
AfterRotateError == "done"

\* the runs started so far
RunsStarted == issue["c1"].run + issue["c2"].run

IssueFrame == UNCHANGED <<identifier, password, login, twin, loginMain, lookup, teams,
                          decoder, shared, cli, web>>

\* a caller starts dt_generate_api_key.py --team team_name [--yes]
StartIssue(c) ==
    /\ issue[c].pc \in {"idle", "done"}
    /\ RunsStarted < MaxCalls
    /\ \E team_name \in TeamNamePool, yes \in BOOLEAN :
          issue' = [issue EXCEPT ![c] =
                       [IssueIdle EXCEPT !.pc = "find", !.run = issue[c].run + 1,
                                         !.started_at = clock,
                                         !.team_name = team_name, !.auto_confirm = yes]]
    /\ UNCHANGED <<validKeys, serial, clock, issued>>
    /\ IssueFrame

\* lines 145-158: find_team_by_name, the not-found object, the warning text
\* printed before the prompt; a failed team-list request leaves
\* generate_api_key_for_team as DependencyTrackAPIError, which main (lines
\* 201-203) logs before it exits 1.  stdout holds what was printed: "json" for
\* a json.dumps object, "text" for plain lines
FindTeam(c) ==
    /\ issue[c].pc = "find"
    /\ \E answer \in DirAnswers({teams}) :
          LET team == find_team_by_name(answer.list, issue[c].team_name) IN
          issue' = [issue EXCEPT ![c] =
             IF ~answer.ok
             THEN [@ EXCEPT !.pc = "done", !.listed = "failed",
                            !.result = [kind |-> "exit", key |-> NoKey, error |-> "api_error"]]
             ELSE IF ~team.found
             THEN [@ EXCEPT !.pc = "done", !.listed = "ok",
                            !.stdout = Append(@, "json"),
                            !.result = [kind |-> "error", key |-> NoKey,
                                        error |-> "team_not_found"]]
             ELSE [@ EXCEPT !.pc = IF issue[c].auto_confirm THEN "rotate" ELSE "confirm",
                            !.listed = "ok",
                            !.stdout = IF issue[c].auto_confirm THEN @
                                       ELSE Append(@, "text"),
                            !.uuid = answer.list[team.index].uuid]]
    /\ UNCHANGED <<validKeys, serial, clock, issued>>
    /\ IssueFrame

\* lines 155-162: the prompt; response is input(...).strip().lower()
Confirm(c) ==
    /\ issue[c].pc = "confirm"
    /\ \E response \in ConfirmPool :
          issue' = [issue EXCEPT ![c] =
             IF Confirmed(response)
             THEN [@ EXCEPT !.pc = "rotate", !.response = lower(strip(response))]
             ELSE [@ EXCEPT !.pc = "done",
                            !.stdout = Append(@, "text"),
                            !.result = [kind |-> "cancelled", key |-> NoKey,
                                        error |-> "none"]]]
    /\ UNCHANGED <<validKeys, serial, clock, issued>>
    /\ IssueFrame

\* lines 164-178: the PUT, served or not by the server, and what
\* generate_api_key_for_team prints
Rotate(c) ==
    /\ issue[c].pc = "rotate"
    /\ \E answer \in RotateAnswers :
          LET minted == ServerKey(serial + 1)
              now    == clock + 1
              r      == generate_api_key(issue[c].uuid, answer, minted, now)
              sent   == [issue[c] EXCEPT !.puts = @ + 1,
                                         !.put_uuid = issue[c].uuid,
                                         !.put_at = now,
                                         !.served_as = IF answer.served
                                                       THEN serial + 1 ELSE 0,
                                         !.rotations = IF answer.served THEN @ + 1 ELSE @,
                                         !.body = answer.body,
                                         !.response = <<>>]
          IN  /\ validKeys' = IF answer.served
                              THEN ServerRotate(validKeys, issue[c].uuid, minted)
                              ELSE validKeys
              /\ serial' = IF answer.served THEN serial + 1 ELSE serial
              /\ clock' = now
              /\ issue' = [issue EXCEPT ![c] =
                    CASE r.exc = "none" ->
                           [sent EXCEPT !.pc = "done",
                                        !.stdout = Append(@, "json"),
                                        !.result = [kind |-> "api_key", key |-> r.key,
                                                    error |-> "none"]]
                      [] r.exc = "api" ->
                           [sent EXCEPT !.pc = AfterRotateError,
                                        !.stdout = Append(@, "json"),
                                        !.result = [kind |-> "error", key |-> NoKey,
                                                    error |-> "api_error"]]
                      [] r.exc = "other" ->
                           [sent EXCEPT !.pc = "done",
                                        !.result = [kind |-> "exit", key |-> NoKey,
                                                    error |-> "unexpected"]]]
              /\ issued' = IF r.exc = "none"
                           THEN Append(issued, [caller |-> c, uuid |-> issue[c].uuid,
                                                key |-> r.key])
                           ELSE issued
    /\ IssueFrame

----------------------------------------------------------------------------
(* Token Inspector on the text of a token: decode_jwt_payload, character by  *)
(* character (dt_user_login.py lines 58-77, the same code as                 *)
(* uniTesting/jwtBasedAuthentication.py lines 11-30)                          *)

\* the base64 alphabet; position - 1 is the value of the character
B64Chars ==
    << "A", "B", "C", "D", "E", "F", "G", "H", "I", "J", "K", "L", "M", "N", "O", "P",
       "Q", "R", "S", "T", "U", "V", "W", "X", "Y", "Z", "a", "b", "c", "d", "e", "f",
       "g", "h", "i", "j", "k", "l", "m", "n", "o", "p", "q", "r", "s", "t", "u", "v",
       "w", "x", "y", "z", "0", "1", "2", "3", "4", "5", "6", "7", "8", "9", "+", "/" >>

\* urlsafe_b64decode first translates '-' to '+' and '_' to '/'
UrlTranslate(c) == IF c = "-" THEN "+" ELSE IF c = "_" THEN "/" ELSE c

InAlphabet(c) == \E i \in DOMAIN B64Chars : B64Chars[i] = UrlTranslate(c)

B64Value(c) == (CHOOSE i \in DOMAIN B64Chars : B64Chars[i] = UrlTranslate(c)) - 1

\* str.split(sep): the pieces between the separators
RECURSIVE split(_, _)
split(s, sep) ==
    LET at == {i \in DOMAIN s : s[i] = sep} IN
    IF at = {} THEN << s >>
    ELSE << SubSeq(s, 1, FirstOf(at) - 1) >> \o split(SubSeq(s, FirstOf(at) + 1, Len(s)), sep)

\* c * n for a one-character string c
RECURSIVE Repeat(_, _)
Repeat(c, n) == IF n = 0 THEN <<>> ELSE << c >> \o Repeat(c, n - 1)

\* a decode that leaves the padding out
WithoutPadding(payload) == payload

\* line 69: payload += '=' * (4 - len(payload) % 4)
AddPadding(payload) == payload \o Repeat("=", 4 - (Len(payload) % 4))

\* binascii.a2b_base64 without strict mode, as base64.b64decode calls it:
\* characters outside the alphabet are skipped, a completed pad sequence ends
\* the input, and data left in an unfinished quad is an error
RECURSIVE a2b_base64(_, _, _, _, _, _)
a2b_base64(s, i, quad_pos, leftchar, pads, out) ==
    IF i > Len(s)
    THEN [ok |-> quad_pos = 0, bytes |-> out]
    ELSE IF s[i] = "="
    THEN IF quad_pos >= 2 /\ quad_pos + pads + 1 >= 4
         THEN [ok |-> TRUE, bytes |-> out]
         ELSE a2b_base64(s, i + 1, quad_pos, leftchar,
                         IF quad_pos >= 2 THEN pads + 1 ELSE pads, out)
    ELSE IF ~InAlphabet(s[i])
    THEN a2b_base64(s, i + 1, quad_pos, leftchar, pads, out)
    ELSE LET this_ch == B64Value(s[i]) IN
         CASE quad_pos = 0 -> a2b_base64(s, i + 1, 1, this_ch, 0, out)
           [] quad_pos = 1 -> a2b_base64(s, i + 1, 2, this_ch % 16, 0,
                                         Append(out, leftchar * 4 + this_ch \div 16))
           [] quad_pos = 2 -> a2b_base64(s, i + 1, 3, this_ch % 4, 0,
                                         Append(out, leftchar * 16 + this_ch \div 4))
           [] quad_pos = 3 -> a2b_base64(s, i + 1, 0, 0, 0,
                                         Append(out, leftchar * 64 + this_ch))

\* base64.urlsafe_b64decode(payload): the bytes, or binascii.Error
urlsafe_b64decode(payload) == a2b_base64(payload, 1, 0, 0, 0, <<>>)

\* payload maps holding sub, iat and exp, as the JSON text a server signs; their
\* lengths are 27, 28 and 29 bytes, so that the encoded segments have lengths
\* 0, 2 and 3 modulo 4
PayloadTexts ==
    {
      \* {"sub":"a","iat":1,"exp":2}
      [text |-> << 123, 34, 115, 117, 98, 34, 58, 34, 97, 34, 44, 34, 105, 97,
                   116, 34, 58, 49, 44, 34, 101, 120, 112, 34, 58, 50, 125 >>,
       value |-> [type |-> "map", members |-> {"sub:a", "iat:1", "exp:2"}]],
      \* {"sub":"a","iat":1,"exp":20}
      [text |-> << 123, 34, 115, 117, 98, 34, 58, 34, 97, 34, 44, 34, 105, 97,
                   116, 34, 58, 49, 44, 34, 101, 120, 112, 34, 58, 50, 48, 125 >>,
       value |-> [type |-> "map", members |-> {"sub:a", "iat:1", "exp:20"}]],
      \* {"sub":"a","iat":10,"exp":20}
      [text |-> << 123, 34, 115, 117, 98, 34, 58, 34, 97, 34, 44, 34, 105, 97,
                   116, 34, 58, 49, 48, 44, 34, 101, 120, 112, 34, 58, 50, 48,
                   125 >>,
       value |-> [type |-> "map", members |-> {"sub:a", "iat:10", "exp:20"}]] }

\* JSON texts, as UTF-8 bytes, and what json.loads makes of them: the maps
\* {}, {} followed by a space, {"a":1}, {"iat":1}, {"sub":"a"}; the list [1];
\* the number 1; the string "a"; and null
JsonTexts ==
    {
      [text |-> << 123, 125 >>,
       value |-> [type |-> "map", members |-> {}]],
      [text |-> << 123, 125, 32 >>,
       value |-> [type |-> "map", members |-> {}]],
      [text |-> << 123, 34, 97, 34, 58, 49, 125 >>,
       value |-> [type |-> "map", members |-> {"a:1"}]],
      [text |-> << 123, 34, 105, 97, 116, 34, 58, 49, 125 >>,
       value |-> [type |-> "map", members |-> {"iat:1"}]],
      [text |-> << 123, 34, 115, 117, 98, 34, 58, 34, 97, 34, 125 >>,
       value |-> [type |-> "map", members |-> {"sub:a"}]],
      [text |-> << 91, 49, 93 >>,
       value |-> [type |-> "list", members |-> {"1"}]],
      [text |-> << 49 >>,
       value |-> [type |-> "number", members |-> {"1"}]],
      [text |-> << 34, 97, 34 >>,
       value |-> [type |-> "string", members |-> {"a"}]],
      [text |-> << 110, 117, 108, 108 >>,
       value |-> [type |-> "null", members |-> {}]] }
    \cup PayloadTexts

NoValue == [type |-> "none", members |-> {}]

\* bytes.decode('utf-8') of the texts used here: a byte of 128 or more that
\* starts no valid sequence raises UnicodeDecodeError
utf8_decodes(bytes) == \A i \in DOMAIN bytes : bytes[i] < 128

\* json.loads: the value, or JSONDecodeError for a text that is no JSON
json_loads(bytes) ==
    IF \E d \in JsonTexts : d.text = bytes
    THEN [ok |-> TRUE, value |-> (CHOOSE d \in JsonTexts : d.text = bytes).value]
    ELSE [ok |-> FALSE, value |-> NoValue]

\* decode_jwt_payload on the text of a token.  parts and padded are the locals
\* of the same names (padded is payload after line 69); some is FALSE when the
\* function returns None, by `return None`, by an exception caught, or
\* because the text is the JSON null
decode_jwt_payload_str(token) ==
    LET parts == split(token, ".") IN
    IF Len(parts) # 3
    THEN [parts |-> Len(parts), padded |-> <<>>, some |-> FALSE, val |-> NoValue]
    ELSE LET payload       == AddPadding(parts[2])
             decoded_bytes == urlsafe_b64decode(payload)
             payload_data  == json_loads(decoded_bytes.bytes)
         IN  IF /\ decoded_bytes.ok
                /\ utf8_decodes(decoded_bytes.bytes)
                /\ payload_data.ok
                /\ payload_data.value.type # "null"
             THEN [parts |-> 3, padded |-> payload, some |-> TRUE,
                   val |-> payload_data.value]
             ELSE [parts |-> 3, padded |-> payload, some |-> FALSE, val |-> NoValue]

\* second segments that are the unpadded base64url text of a JSON map
MapSegments ==
    { << "e", "3", "0" >>,
      << "e", "3", "0", "g" >>,
      << "e", "y", "J", "h", "I", "j", "o", "x", "f", "Q" >>,
      << "e", "y", "J", "p", "Y", "X", "Q", "i", "O", "j", "F", "9" >>,
      << "e", "y", "J", "z", "d", "W", "I", "i", "O", "i", "J", "h", "I", "n", "0" >> }

\* token texts: header h and signature s around each map segment and around
\* segments that encode no map, and texts with fewer or more than three segments
TokenTexts ==
    {
      << "h", ".", "e", "3", "0", ".", "s" >>,   \* the map {}
      << "h", ".", "e", "3", "0", "g", ".", "s" >>,   \* the map {}<space>
      << "h", ".", "e", "y", "J", "h", "I", "j", "o", "x", "f", "Q", ".", "s" >>,   \* the map {"a":1}
      << "h", ".", "e", "y", "J", "p", "Y", "X", "Q", "i", "O", "j", "F", "9", ".", "s" >>,   \* the map {"iat":1}
      << "h", ".", "e", "y", "J", "z", "d", "W", "I", "i", "O", "i", "J", "h", "I", "n", "0", ".", "s" >>,   \* the map {"sub":"a"}
      << "h", ".", "W", "z", "F", "d", ".", "s" >>,   \* the list [1]
      << "h", ".", "M", "Q", ".", "s" >>,   \* the number 1
      << "h", ".", "I", "m", "E", "i", ".", "s" >>,   \* the string "a"
      << "h", ".", "b", "n", "V", "s", "b", "A", ".", "s" >>,   \* null
      << "h", ".", "Y", "Q", ".", "s" >>,   \* the letter a, no JSON
      << "h", ".", "_", "w", ".", "s" >>,   \* the byte 255, no UTF-8
      << "h", ".", ".", "s" >>,   \* the empty segment
      << "h", ".", "e", "3", "0", "g", "A", ".", "s" >>,   \* five characters, one more than a multiple of 4
      << "h", ".", "Y", ".", "s" >>,   \* one character
      << "h", ".", "e", "!", "3", "0", ".", "s" >>,   \* e30 with a character outside the alphabet
      << "h", ".", "e", "3", "=", "0", ".", "s" >>,   \* e30 with a pad character inside
      << "h", ".", "e", "3", "0" >>,   \* two segments
      << "h", ".", "e", "3", "0", ".", "s", ".", "x" >>,   \* four segments
      << "h" >>,   \* one segment
      << >> }   \* the empty string

\* the character of a 6-bit value in the URL-safe alphabet
UrlChar(v) == IF v = 62 THEN "-" ELSE IF v = 63 THEN "_" ELSE B64Chars[v + 1]

\* base64url text of a byte string, without padding: three bytes make four
\* characters, a last single byte two, a last pair three
RECURSIVE urlsafe_b64encode_nopad(_)
urlsafe_b64encode_nopad(bytes) ==
    IF Len(bytes) = 0 THEN <<>>
    ELSE IF Len(bytes) = 1
    THEN << UrlChar(bytes[1] \div 4), UrlChar((bytes[1] % 4) * 16) >>
    ELSE IF Len(bytes) = 2
    THEN << UrlChar(bytes[1] \div 4),
            UrlChar((bytes[1] % 4) * 16 + bytes[2] \div 16),
            UrlChar((bytes[2] % 16) * 4) >>
    ELSE << UrlChar(bytes[1] \div 4),
            UrlChar((bytes[1] % 4) * 16 + bytes[2] \div 16),
            UrlChar((bytes[2] % 16) * 4 + bytes[3] \div 64),
            UrlChar(bytes[3] % 64) >>
         \o urlsafe_b64encode_nopad(SubSeq(bytes, 4, Len(bytes)))

\* a three-segment token around the encoding of a payload text
encode_for_test(text) ==
    << "h", "." >> \o urlsafe_b64encode_nopad(text) \o << ".", "s" >>

\* the second segments of the tokens made from the payload maps
PayloadSegments == {urlsafe_b64encode_nopad(d.text) : d \in PayloadTexts}

DecoderOff == [pc |-> "off", token |-> <<>>,
               result |-> [parts |-> 0, padded |-> <<>>, some |-> FALSE, val |-> NoValue]]

\* one call of decode_jwt_payload
DecodeToken ==
    /\ decoder.pc = "start"
    /\ decoder' = [decoder EXCEPT !.pc = "done",
                                  !.result = decode_jwt_payload_str(decoder.token)]
    /\ UNCHANGED <<identifier, password, login, twin, loginMain, lookup, teams,
                   validKeys, serial, clock, issue, issued, shared, cli, web>>

----------------------------------------------------------------------------
(* One DependencyTrackClient shared by two threads: one calls _authenticate, *)
(* the other _make_request.  _authenticate is taken in its two halves, the   *)
(* assignment of self.jwt_token (line 100) and the rest (lines 101-118).     *)

NoClient == [jwt_token |-> NoToken, authorization |-> NoToken]

SharedOff == [pc |-> "off", client |-> NoClient,
              pending |-> [net |-> FALSE, status |-> 0, body |-> NoToken],
              seen |-> [some |-> FALSE, token |-> NoToken, header |-> NoToken,
                        mid |-> FALSE]]

SharedFrame == UNCHANGED <<identifier, password, login, twin, loginMain, lookup, teams,
                           validKeys, serial, clock, issue, issued, decoder, cli, web>>

\* lines 94-100: the POST and, for a 200 answer whose text starts with eyJ,
\* self.jwt_token = token; any other answer raises and changes nothing
SharedPost ==
    /\ shared.pc = "idle"
    /\ \E answer \in AuthAnswers :
          shared' =
             IF answer.net /\ answer.status = 200 /\ answer.body.eyJ
             THEN [shared EXCEPT !.pc = "stored", !.pending = answer,
                                 !.client.jwt_token = answer.body]
             ELSE [shared EXCEPT !.client = _authenticate(shared.client, answer).client]
    /\ SharedFrame

\* lines 101-118: the Authorization header and the inspection of the payload,
\* after which the call has returned or raised
SharedStoreHeader ==
    /\ shared.pc = "stored"
    /\ shared' = [shared EXCEPT !.pc = "idle",
                                !.client = _authenticate(shared.client, shared.pending).client]
    /\ SharedFrame

\* _make_request, lines 218-224, in the other thread: with a token held it
\* sends the request with the session's headers; seen is what it went by
SharedRead ==
    /\ shared.pc \in {"idle", "stored"}
    /\ shared.client.jwt_token # NoToken
    /\ shared' = [shared EXCEPT !.seen = [some |-> TRUE,
                                          token |-> shared.client.jwt_token,
                                          header |-> shared.client.authorization,
                                          mid |-> shared.pc = "stored"]]
    /\ SharedFrame

----------------------------------------------------------------------------
(* The command-line key generator: generate_api_key_for_team of               *)
(* Dependency-Track_scripts/Dependency-Track_generate_api_key.py               *)

\* team objects of GET /v1/team for the command-line scripts
CliTeamPool ==
    { [uuid |-> "u1", name |-> <<"a", "b">>],
      [uuid |-> "u2", name |-> <<"B", "A">>],
      [uuid |-> "u3", name |-> <<"c">>],
      [uuid |-> "u4"] }

CliTeamLists == {l \in SeqsUpTo(CliTeamPool, MaxTeams) :
                    \A i, j \in DOMAIN l : l[i].uuid = l[j].uuid => i = j}

\* --team values: a part of two names, a name in full, a name no team has
CliTeamNamePool == { <<"A">>, <<"C">>, <<"d">> }

\* what the operator types at the prompt of confirm_action
CliConfirmPool == ConfirmPool \cup { <<"N", "o">> }

\* get_teams, lines 100-117: team_data['name'] raises KeyError for a team
\* object without a name
scripts_get_teams(answer) ==
    IF ~answer.ok THEN [exc |-> "api", teams |-> <<>>]
    ELSE IF \E i \in DOMAIN answer.list : ~HasKey(answer.list[i], "name")
         THEN [exc |-> "other", teams |-> <<>>]
         ELSE [exc |-> "none", teams |-> answer.list]

\* find_team_by_name, lines 119-125, on the list get_teams returned
scripts_find_team_by_name(list, team_name) ==
    LET hits == {i \in DOMAIN list : lower(list[i].name) = lower(team_name)}
    IN  IF hits = {} THEN [found |-> FALSE, index |-> 0]
        ELSE [found |-> TRUE, index |-> FirstOf(hits)]

RECURSIVE NamesOf(_)
NamesOf(list) ==
    IF list = <<>> THEN <<>> ELSE <<list[1].name>> \o NamesOf(Tail(list))

\* line 308: [t for t in teams if team_name.lower() in t.name.lower()]
similar_teams(list, team_name) ==
    LET near(t) == IsSubstring(lower(team_name), lower(t.name))
    IN  NamesOf(SelectSeq(list, near))

\* generate_api_key, lines 127-139: a body that is a bare JSON string has no
\* get (AttributeError); a body without a key field gives the placeholder text
scripts_generate_api_key(answer, minted) ==
    IF ~answer.ok THEN [exc |-> "api", key |-> NoKey]
    ELSE IF answer.body = "empty" THEN [exc |-> "api", key |-> NoKey]
    ELSE IF answer.body = "quoted" THEN [exc |-> "other", key |-> NoKey]
    ELSE IF answer.body = "key" THEN [exc |-> "none", key |-> minted]
    ELSE [exc |-> "none", key |-> [kind |-> "No key field found", uuid |-> "-", n |-> 0]]

\* an acceptance test that takes every answer but no and n
ProceedsUnlessNo(response) ==
    lower(strip(response)) \notin { <<"n", "o">>, <<"n">> }

\* confirm_action, line 232: response in ['yes', 'y']
Proceeds(response) ==
    lower(strip(response)) \in { <<"y", "e", "s">>, <<"y">> }

\* confirm_action, line 234: response in ['no', 'n']
Declines(response) ==
    lower(strip(response)) \in { <<"n", "o">>, <<"n">> }

\* result.kind: "key", "not_found", "cancelled", "failed" are the returns of
\* generate_api_key_for_team (True for "key"); "raised" is an exception that
\* leaves it for main, which logs it and exits 1
CliOff == [pc |-> "off", team_name |-> <<>>, auto_confirm |-> FALSE, uuid |-> "-",
           stdout |-> <<>>, hint_fetch |-> "none", hint |-> <<>>, response |-> <<>>,
           asked |-> FALSE, puts |-> 0,
           result |-> [kind |-> "none", key |-> NoKey, error |-> "none"]]

CliFrame == UNCHANGED <<identifier, password, login, twin, loginMain, lookup, teams,
                        clock, issue, issued, decoder, shared, web>>

CliRaised(exc) == [kind |-> "raised", key |-> NoKey, error |-> exc]

CliReturned(kind) == [kind |-> kind, key |-> NoKey, error |-> "none"]

\* lines 296-318: find the team; when there is none, print so, fetch the team
\* list again and print the names that contain team_name
CliFindTeam ==
    /\ cli.pc = "find"
    /\ \E answer \in DirAnswers({teams}), again \in DirAnswers({teams}) :
          LET first  == scripts_get_teams(answer)
              team   == scripts_find_team_by_name(first.teams, cli.team_name)
              second == scripts_get_teams(again)
              similar == similar_teams(second.teams, cli.team_name)
          IN  cli' =
                IF first.exc # "none"
                THEN [cli EXCEPT !.pc = "done", !.result = CliRaised(first.exc)]
                ELSE IF team.found
                THEN [cli EXCEPT !.pc = IF cli.auto_confirm THEN "rotate" ELSE "confirm",
                                 !.uuid = first.teams[team.index].uuid,
                                 !.stdout = Append(@, "found")]
                ELSE IF second.exc # "none"
                THEN [cli EXCEPT !.pc = "done", !.hint_fetch = "failed",
                                 !.stdout = Append(@, "not_found"),
                                 !.result = CliRaised(second.exc)]
                ELSE [cli EXCEPT !.pc = "done", !.hint_fetch = "ok",
                                 !.hint = similar,
                                 !.stdout = IF similar = <<>> THEN Append(@, "not_found")
                                            ELSE @ \o <<"not_found", "hint">>,
                                 !.result = CliReturned("not_found")]
    /\ UNCHANGED <<validKeys, serial>>
    /\ CliFrame

\* confirm_action, lines 222-240, and lines 320-322: one answer at the prompt,
\* or Ctrl-C; any answer but yes, y, no and n is asked again
CliConfirm ==
    /\ cli.pc = "confirm"
    /\ \E response \in CliConfirmPool, interrupt \in BOOLEAN :
          cli' =
             IF interrupt
             THEN [cli EXCEPT !.pc = "done", !.stdout = Append(@, "cancelled"),
                              !.result = CliReturned("cancelled")]
             ELSE IF Proceeds(response)
             THEN [cli EXCEPT !.pc = "rotate", !.response = lower(strip(response)),
                              !.asked = TRUE]
             ELSE IF Declines(response)
             THEN [cli EXCEPT !.pc = "done", !.stdout = Append(@, "cancelled"),
                              !.response = lower(strip(response)), !.asked = TRUE,
                              !.result = CliReturned("cancelled")]
             ELSE [cli EXCEPT !.response = lower(strip(response)), !.asked = TRUE]
    /\ UNCHANGED <<validKeys, serial>>
    /\ CliFrame

\* lines 324-344: the PUT, served or not by the server, and the return
CliRotate ==
    /\ cli.pc = "rotate"
    /\ \E answer \in RotateAnswers :
          LET minted == ServerKey(serial + 1)
              r      == scripts_generate_api_key(answer, minted)
          IN  /\ validKeys' = IF answer.served
                              THEN ServerRotate(validKeys, cli.uuid, minted)
                              ELSE validKeys
              /\ serial' = IF answer.served THEN serial + 1 ELSE serial
              /\ cli' = [cli EXCEPT
                           !.pc = "done", !.puts = @ + 1,
                           !.stdout = IF r.exc = "none" THEN Append(@, "success")
                                      ELSE IF r.exc = "api" THEN Append(@, "failed")
                                      ELSE @,
                           !.result = IF r.exc = "none"
                                      THEN [kind |-> "key", key |-> r.key, error |-> "none"]
                                      ELSE IF r.exc = "api" THEN CliReturned("failed")
                                      ELSE CliRaised(r.exc)]
    /\ CliFrame

----------------------------------------------------------------------------
(* The web front-end: Dependency-Track_Plugin/app.py.  A script that a route  *)
(* runs is taken by what the route sees of it: its exit code and its stdout.  *)

\* form and query values; the empty string stands for a missing one as well
WebUserPool == {"", "alice", "bob"}

WebPasswordPool == {"", "pw"}

WebTeamPool == {"", "team"}

\* how a script ends: returncode, whether stdout is JSON, and the keys of the
\* object it printed
ScriptOutcomes ==
    { [returncode |-> rc, json |-> TRUE, keys |-> k] :
         rc \in {0, 1},
         k \in { {"success", "username", "email"}, {"api_key"}, {"error"},
                 {"success", "message"} } }
    \cup { [returncode |-> rc, json |-> FALSE, keys |-> {}] : rc \in {0, 1} }

\* run_script, lines 39-51: a nonzero exit raises Exception(stderr); stdout
\* that is not JSON becomes {"output": ...}
run_script(outcome) ==
    IF outcome.returncode # 0 THEN [exc |-> TRUE, keys |-> {}]
    ELSE IF outcome.json THEN [exc |-> FALSE, keys |-> outcome.keys]
    ELSE [exc |-> FALSE, keys |-> {"output"}]

\* session.pop(key, None)
pop(session, key) == [k \in DOMAIN session \ {key} |-> session[k]]

\* session[key] = value
setitem(session, key, value) ==
    [k \in DOMAIN session \cup {key} |-> IF k = key THEN value ELSE session[k]]

\* a logout that drops the flag and keeps the name
session_after_logout_flag_only(session) == pop(session, "logged_in")

\* logout, lines 166-167
session_after_logout(session) == pop(pop(session, "logged_in"), "username")

\* session.get('logged_in') as a condition
LoggedIn(session) == HasKey(session, "logged_in") /\ session.logged_in

NoRequest == [route |-> "none", ran |-> "none", returncode |-> 0, keys |-> {},
              status |-> 0, username |-> ""]

WebOff == [up |-> FALSE, session |-> [k \in {} |-> TRUE], last |-> NoRequest]

WebFrame == UNCHANGED <<identifier, password, login, twin, loginMain, lookup, teams,
                        validKeys, serial, clock, issue, issued, decoder, shared, cli>>

\* POST /login, lines 59-85
web_login ==
    /\ web.up
    /\ \E username \in WebUserPool, pw \in WebPasswordPool, outcome \in ScriptOutcomes :
          LET output == run_script(outcome)
              ranIt  == [NoRequest EXCEPT !.route = "login", !.ran = "dt_user_login.py",
                                          !.returncode = outcome.returncode,
                                          !.keys = output.keys, !.username = username]
          IN  web' =
                IF username = "" \/ pw = ""
                THEN [web EXCEPT !.last = [NoRequest EXCEPT !.route = "login",
                                                            !.username = username,
                                                            !.status = 400]]
                ELSE IF output.exc
                THEN [web EXCEPT !.last = [ranIt EXCEPT !.status = 500]]
                ELSE IF "error" \in output.keys
                THEN [web EXCEPT !.last = [ranIt EXCEPT !.status = 404]]
                ELSE [web EXCEPT !.session = setitem(setitem(web.session, "logged_in", TRUE),
                                                     "username", username),
                                 !.last = [ranIt EXCEPT !.status = 200]]
    /\ WebFrame

\* GET /getToken, lines 87-92: the page, or a redirect to the login form
get_token_page ==
    /\ web.up
    /\ web' = [web EXCEPT !.last = [NoRequest EXCEPT
                                       !.route = "getToken",
                                       !.status = IF LoggedIn(web.session) THEN 200 ELSE 302]]
    /\ WebFrame

\* GET /api/generate_token, lines 113-137
generate_token ==
    /\ web.up
    /\ \E team \in WebTeamPool, username \in WebUserPool, outcome \in ScriptOutcomes :
          LET output == run_script(outcome)
              ranIt  == [NoRequest EXCEPT !.route = "generate_token",
                                          !.ran = "dt_generate_api_key.py",
                                          !.returncode = outcome.returncode,
                                          !.keys = output.keys, !.username = username]
          IN  web' =
                IF team = ""
                THEN [web EXCEPT !.last = [NoRequest EXCEPT !.route = "generate_token",
                                                            !.username = username,
                                                            !.status = 400]]
                ELSE IF output.exc
                THEN [web EXCEPT !.last = [ranIt EXCEPT !.status = 500]]
                ELSE IF "error" \in output.keys
                THEN [web EXCEPT !.last = [ranIt EXCEPT !.status = 404]]
                ELSE IF "api_key" \notin output.keys
                THEN [web EXCEPT !.last = [ranIt EXCEPT !.status = 500]]
                ELSE [web EXCEPT !.last = [ranIt EXCEPT !.status = 200]]
    /\ WebFrame

\* GET /logout, lines 164-168
logout ==
    /\ web.up
    /\ web' = [web EXCEPT !.session = session_after_logout(web.session),
                          !.last = [NoRequest EXCEPT !.route = "logout", !.status = 302]]
    /\ WebFrame

----------------------------------------------------------------------------
(* Specification: one behaviour is a run of one of the three scripts, the      *)
(* callers' runs of dt_generate_api_key.py against one server, one call of     *)
(* decode_jwt_payload, a client object shared by two threads, a run of the     *)
(* command-line key generator, or a browser session of the web front-end       *)

InitLogin ==
    /\ identifier \in IdentPool
    /\ password \in PasswordPool
    /\ login = LoginStart
    /\ twin = LoginStart
    /\ loginMain = [MainOff EXCEPT !.pc = "run"]
    /\ lookup = LookupOff
    /\ teams = <<>>
    /\ validKeys = {}
    /\ serial = 0
    /\ clock = 0
    /\ issue = [c \in Callers |-> IssueOff]
    /\ issued = <<>>
    /\ decoder = DecoderOff
    /\ shared = SharedOff
    /\ cli = CliOff
    /\ web = WebOff

InitFetchTeams ==
    /\ identifier \in IdentPool
    /\ password = "pw1"
    /\ login = LoginOff
    /\ twin = LoginOff
    /\ loginMain = MainOff
    /\ lookup = [LookupOff EXCEPT !.pc = "start"]
    /\ teams = <<>>
    /\ validKeys = {}
    /\ serial = 0
    /\ clock = 0
    /\ issue = [c \in Callers |-> IssueOff]
    /\ issued = <<>>
    /\ decoder = DecoderOff
    /\ shared = SharedOff
    /\ cli = CliOff
    /\ web = WebOff

\* every team of the server starts with one active key
InitIssue ==
    /\ identifier = <<>>
    /\ password = "pw1"
    /\ login = LoginOff
    /\ twin = LoginOff
    /\ loginMain = MainOff
    /\ lookup = LookupOff
    /\ teams \in TeamLists
    /\ validKeys = {[uuid |-> teams[i].uuid, key |-> ServerKey(i)] : i \in DOMAIN teams}
    /\ serial = Len(teams)
    /\ clock = 0
    /\ issue = [c \in Callers |-> IssueIdle]
    /\ issued = <<>>
    /\ decoder = DecoderOff
    /\ shared = SharedOff
    /\ cli = CliOff
    /\ web = WebOff

InitDecode ==
    /\ identifier = <<>>
    /\ password = "pw1"
    /\ login = LoginOff
    /\ twin = LoginOff
    /\ loginMain = MainOff
    /\ lookup = LookupOff
    /\ teams = <<>>
    /\ validKeys = {}
    /\ serial = 0
    /\ clock = 0
    /\ issue = [c \in Callers |-> IssueOff]
    /\ issued = <<>>
    /\ decoder \in {[DecoderOff EXCEPT !.pc = "start", !.token = t] :
                       t \in TokenTexts \cup {encode_for_test(d.text) : d \in PayloadTexts}}
    /\ shared = SharedOff
    /\ cli = CliOff
    /\ web = WebOff

\* a client object just constructed (self.jwt_token = None, no Authorization
\* header), handed to a thread that logs in and a thread that sends requests
InitShared ==
    /\ identifier = <<>>
    /\ password = "pw1"
    /\ login = LoginOff
    /\ twin = LoginOff
    /\ loginMain = MainOff
    /\ lookup = LookupOff
    /\ teams = <<>>
    /\ validKeys = {}
    /\ serial = 0
    /\ clock = 0
    /\ issue = [c \in Callers |-> IssueOff]
    /\ issued = <<>>
    /\ decoder = DecoderOff
    /\ shared = [SharedOff EXCEPT !.pc = "idle"]
    /\ cli = CliOff
    /\ web = WebOff

\* main of the command-line generator has connected and calls
\* generate_api_key_for_team(client, team_name, args.save, args.yes)
InitCli ==
    /\ identifier = <<>>
    /\ password = "pw1"
    /\ login = LoginOff
    /\ twin = LoginOff
    /\ loginMain = MainOff
    /\ lookup = LookupOff
    /\ teams \in CliTeamLists
    /\ validKeys = {[uuid |-> teams[i].uuid, key |-> ServerKey(i)] : i \in DOMAIN teams}
    /\ serial = Len(teams)
    /\ clock = 0
    /\ issue = [c \in Callers |-> IssueOff]
    /\ issued = <<>>
    /\ decoder = DecoderOff
    /\ shared = SharedOff
    /\ cli \in {[CliOff EXCEPT !.pc = "find", !.team_name = n, !.auto_confirm = y] :
                   n \in CliTeamNamePool, y \in BOOLEAN}
    /\ web = WebOff

\* the Flask application is up and a browser has no session data yet
InitWeb ==
    /\ identifier = <<>>
    /\ password = "pw1"
    /\ login = LoginOff
    /\ twin = LoginOff
    /\ loginMain = MainOff
    /\ lookup = LookupOff
    /\ teams = <<>>
    /\ validKeys = {}
    /\ serial = 0
    /\ clock = 0
    /\ issue = [c \in Callers |-> IssueOff]
    /\ issued = <<>>
    /\ decoder = DecoderOff
    /\ shared = SharedOff
    /\ cli = CliOff
    /\ web = [WebOff EXCEPT !.up = TRUE]

Init == InitLogin \/ InitFetchTeams \/ InitIssue \/ InitDecode \/ InitShared \/ InitCli \/ InitWeb

Next ==
    \/ FetchTeamsMain
    \/ DirectAttempt
    \/ ResolveByEmail
    \/ RetryWithResolvedUsername
    \/ MainAuthError
    \/ MainSearch
    \/ \E c \in Callers : StartIssue(c)
    \/ \E c \in Callers : FindTeam(c)
    \/ \E c \in Callers : Confirm(c)
    \/ \E c \in Callers : Rotate(c)
    \/ DecodeToken
    \/ SharedPost
    \/ SharedStoreHeader
    \/ SharedRead
    \/ CliFindTeam
    \/ CliConfirm
    \/ CliRotate
    \/ web_login
    \/ get_token_page
    \/ generate_token
    \/ logout

Spec == Init /\ [][Next]_vars

----------------------------------------------------------------------------
(* Properties *)

\* the raw authentication call succeeds, in the terms of the interface: status 200
\* and a body that begins with eyJ
RawSuccess(answer) == answer.net /\ answer.status = 200 /\ answer.body.eyJ

\* some identity of the list has this e-mail, compared case-insensitively
HasEmail(list, ident) ==
    \E i \in DOMAIN list :
        HasKey(list[i], "email") /\ lower(list[i].email) = strip(lower(ident))

DirCalls == {i \in DOMAIN login.calls : login.calls[i].op = "dir"}

AuthCalls == {i \in DOMAIN login.calls : login.calls[i].op = "auth"}

\* C1: whenever some identity's username equals the normalized identifier, resolve
\* returns the first such identity, even when an identity matching by e-mail comes
\* earlier in the list.
C1_UsernamePriority ==
    (lookup.pc = "done" /\ lookup.answer.ok) =>
        LET all_users == get_all_users(lookup.answer.list)
            byName == {i \in DOMAIN all_users :
                          MatchesUsername(all_users[i], strip(lower(identifier)))}
        IN  byName # {} =>
                /\ lookup.result.kind = "user"
                /\ lookup.result.index = FirstOf(byName)

\* C2: one run of the issuer sends at most one PUT /v1/team/{uuid}/key, also when
\* the request failed or timed out, so it replaces the team's key at most once.
C2_AtMostOneRotateRequest ==
    \A c \in Callers : issue[c].puts <= 1 /\ issue[c].rotations <= 1

\* a run ended on a failed PUT that the server had served: the outcome the caller
\* cannot know, and no second PUT was sent
C2_Witness ==
    \E c \in Callers :
        /\ issue[c].pc = "done"
        /\ issue[c].result.error = "api_error"
        /\ issue[c].puts = 1
        /\ issue[c].rotations = 1

\* C3: every team has at most one active key, and of two successful issuances for
\* the same team the keys differ and the earlier key is no longer valid.
C3_OneActiveKey ==
    /\ \A i \in DOMAIN teams :
          Cardinality({v \in validKeys : v.uuid = teams[i].uuid}) <= 1
    /\ \A i, j \in DOMAIN issued :
          (i < j /\ issued[i].uuid = issued[j].uuid) =>
              /\ issued[i].key # issued[j].key
              /\ [uuid |-> issued[i].uuid, key |-> issued[i].key] \notin validKeys

\* C4: a rotate response without a usable key field (no field, or an empty body)
\* ends the run with an error, and every value printed as api_key is the key the
\* server put in the response.
C4_NoKeyIsIssuanceError ==
    \A c \in Callers :
        (issue[c].pc = "done" /\ issue[c].puts = 1) =>
            /\ issue[c].body \in {"no_key_field", "empty"} => issue[c].result.kind = "error"
            /\ issue[c].result.kind = "api_key" =>
                   issue[c].body = "key" /\ issue[c].result.key.kind = "server"

\* C5: with an identifier without '@', login never sends a directory request, and
\* when the direct attempt fails it raises the authentication failure after
\* exactly one raw authentication call.
C5_BareUsernameNoLookup ==
    (login.pc # "off" /\ ~Contains(identifier, "@")) =>
        /\ DirCalls = {}
        /\ (login.pc = "done" /\ ~RawSuccess(login.calls[1].answer)) =>
               /\ login.result = Raised("auth_failed")
               /\ Len(login.calls) = 1

C5_Witness ==
    /\ login.pc = "done"
    /\ ~Contains(identifier, "@")
    /\ login.result = Raised("auth_failed")
    /\ Cardinality(AuthCalls) = 1

\* C6: the first call of login is the raw authentication with the literal
\* identifier; when it fails and the identifier contains '@', the directory lookup
\* is the second call, and when no identity of the list has that e-mail, no
\* further call is made and login raises "no username found".
C6_EmailNotFound ==
    /\ Len(login.calls) >= 1 =>
           login.calls[1].op = "auth" /\ login.calls[1].username = identifier
    /\ (login.pc = "done" /\ Contains(identifier, "@")
          /\ ~RawSuccess(login.calls[1].answer)) =>
           /\ Len(login.calls) >= 2
           /\ login.calls[2].op = "dir"
           /\ (login.calls[2].ok /\ ~HasEmail(login.calls[2].list, identifier)) =>
                  /\ Len(login.calls) = 2
                  /\ login.result = Raised("no_username")

C6_Witness ==
    /\ login.pc = "done"
    /\ Contains(identifier, "@")
    /\ Len(login.calls) = 2
    /\ login.calls[2].op = "dir"
    /\ login.calls[2].ok
    /\ login.calls[2].list # <<>>
    /\ ~HasEmail(login.calls[2].list, identifier)
    /\ login.result = Raised("no_username")

\* C7: when the direct attempt fails, the identifier contains '@' and the lookup
\* yields username u, the third call is the raw authentication with u and the same
\* password; if it succeeds login returns u and holds the token of that call, and
\* if it fails login raises "username found but authentication failed".
C7_RetryWithResolvedUsername ==
    (login.pc = "done" /\ Contains(identifier, "@") /\ Len(login.calls) >= 2
       /\ ~RawSuccess(login.calls[1].answer)) =>
        LET u == get_username_from_email(
                     [ok |-> login.calls[2].ok, list |-> login.calls[2].list], identifier)
        IN  TruthyStr(u) =>
                /\ Len(login.calls) = 3
                /\ login.calls[3].op = "auth"
                /\ login.calls[3].username = u.val
                /\ login.calls[3].password = password
                /\ IF RawSuccess(login.calls[3].answer)
                   THEN /\ login.result = Returned(u.val)
                        /\ login.jwt_token = login.calls[3].answer.body
                   ELSE /\ login.result = Raised("resolved_rejected")
                        /\ login.result # Raised("no_username")

\* C8: when the direct attempt succeeds, login returns the identifier exactly as
\* supplied after one raw authentication call and no directory request.
C8_DirectSuccessReturnsIdentifier ==
    (login.pc = "done" /\ RawSuccess(login.calls[1].answer)) =>
        /\ login.result = Returned(identifier)
        /\ Len(login.calls) = 1

\* C9: a failed identity-list or team-list request ends the operation with the
\* directory error, never with a not-found result.
C9_DirectoryFailurePropagates ==
    /\ (login.pc = "done" /\ \E i \in DirCalls : ~login.calls[i].ok) =>
           login.result = Raised("api_error")
    /\ (lookup.pc = "done" /\ ~lookup.answer.ok) => lookup.result.error = "api_error"
    /\ \A c \in Callers :
           issue[c].listed = "failed" => issue[c].result.error = "api_error"

\* C10: a login run and the run fed the same answers, except that the token's
\* payload is a plain map, end in the same outcome: the same result, the same
\* resolved username and the same token up to its payload.
C10_OutcomeIgnoresPayload ==
    login.pc = "done" =>
        /\ twin.pc = "done"
        /\ login.result = twin.result
        /\ [login.jwt_token EXCEPT !.payload = PlainPayload]
               = [twin.jwt_token EXCEPT !.payload = PlainPayload]

----------------------------------------------------------------------------
\* what a finished run printed, as the number of JSON objects on its stdout
JsonObjects(out) == Cardinality({i \in DOMAIN out : out[i] = "json"})

\* C11: every finished run of an entry point (dt_user_login.py main,
\* dt_fetch_teams_for_user.py main, dt_generate_api_key.py main) has printed
\* exactly one result object, a success or an error, whatever the server
\* answered and whether or not the identity or team was found.
C11_OneStructuredResult ==
    /\ loginMain.pc = "exit" => Len(loginMain.stdout) = 1
    /\ lookup.pc = "done" => lookup.result.kind \in {"user", "error"}
    /\ \A c \in Callers :
          issue[c].pc = "done" => JsonObjects(issue[c].stdout) = 1

----------------------------------------------------------------------------
\* a and b are the same letters up to case
SameLetters(a, b) ==
    /\ Len(a) = Len(b)
    /\ \A i \in DOMAIN a : LowerChar(a[i]) = LowerChar(b[i])

\* s is t with whitespace put in front of it and behind it
Padded(s, t) ==
    \E p \in 0..Len(s) :
        /\ p + Len(t) <= Len(s)
        /\ SubSeq(s, p + 1, p + Len(t)) = t
        /\ \A i \in DOMAIN s : (i <= p \/ i > p + Len(t)) => IsSpace(s[i])

\* a and b differ only in letter case and in leading or trailing whitespace
SameUpToCaseAndSpace(a, b) ==
    \E i \in 1..(Len(a) + 1), j \in 0..Len(a) :
        LET core == SubSeq(a, i, j) IN
        /\ Padded(a, core)
        /\ \E t \in {SubSeq(b, k, l) : k \in 1..(Len(b) + 1), l \in 0..Len(b)} :
              Padded(b, t) /\ SameLetters(core, t)

\* C12: the resolver is insensitive to the letter case and the surrounding
\* whitespace of the identifier: against the list the run was answered with,
\* every identifier that differs from the run's only in case or in leading or
\* trailing whitespace resolves to the same identity, or both are not found.
C12_CaseAndSpaceInsensitive ==
    (lookup.pc = "done" /\ lookup.answer.ok) =>
        \A other \in IdentPool :
            SameUpToCaseAndSpace(identifier, other) =>
                /\ get_user_by_username_or_email(lookup.answer.list, other).found
                       = (lookup.result.kind = "user")
                /\ get_user_by_username_or_email(lookup.answer.list, other).index
                       = lookup.result.index

\* a run that found an identity for an identifier written with a capital or
\* with surrounding whitespace, where the pool holds another spelling of it
C12_Witness ==
    /\ lookup.pc = "done"
    /\ lookup.result.kind = "user"
    /\ identifier # strip(lower(identifier))
    /\ \E other \in IdentPool :
          other # identifier /\ SameUpToCaseAndSpace(identifier, other)

----------------------------------------------------------------------------
\* the identity has a non-empty username or e-mail equal, case-insensitively,
\* to the normalised identifier
NonEmptyMatch(user, ident) ==
    \E f \in {"username", "email"} :
        /\ HasKey(user, f)
        /\ user[f] # <<>>
        /\ lower(user[f]) = strip(lower(ident))

\* C13, for one search of a list: not found exactly when no identity of the
\* list matches, and the identity returned matches through a non-empty field
ResolvedExactly(list, ident, found, index) ==
    /\ ~found <=> ~\E i \in DOMAIN list : NonEmptyMatch(list[i], ident)
    /\ found => NonEmptyMatch(list[index], ident)

\* C13: both copies of get_user_by_username_or_email (dt_fetch_teams_for_user.py
\* and dt_user_login.py) return not-found exactly when no identity of the list
\* has a username or e-mail equal, case-insensitively, to the normalised
\* identifier, and never return an identity on the strength of an empty or
\* absent username or e-mail.
C13_NotFoundExactly ==
    /\ (lookup.pc = "done" /\ lookup.answer.ok) =>
          ResolvedExactly(lookup.answer.list, identifier,
                          lookup.result.kind = "user", lookup.result.index)
    /\ (loginMain.pc = "exit" /\ loginMain.answer.ok) =>
          ResolvedExactly(loginMain.answer.list, identifier,
                          loginMain.stdout[1].success, loginMain.stdout[1].index)

----------------------------------------------------------------------------
\* positions of the server's teams whose name is team_name up to letter case
NameMatches(team_name) ==
    {i \in DOMAIN teams : HasKey(teams[i], "name") /\ SameLetters(teams[i].name, team_name)}

\* C14: a run that listed the teams and found a match has selected the first
\* team, in list order, whose name equals the requested name case-insensitively,
\* and the PUT it sent was addressed to that team's uuid and no other.
C14_FirstMatchRotated ==
    \A c \in Callers :
        (issue[c].listed = "ok" /\ NameMatches(issue[c].team_name) # {}) =>
            LET first == teams[FirstOf(NameMatches(issue[c].team_name))] IN
            /\ issue[c].uuid = first.uuid
            /\ issue[c].puts > 0 => issue[c].put_uuid = first.uuid

\* a run that issued a key while two teams of the list matched the name
C14_Witness ==
    \E c \in Callers :
        /\ issue[c].pc = "done"
        /\ issue[c].result.kind = "api_key"
        /\ Cardinality(NameMatches(issue[c].team_name)) = 2
        /\ issue[c].put_uuid = teams[1].uuid

----------------------------------------------------------------------------
----------------------------------------------------------------------------
\* the keys the server accepts for a team
ActiveKeys(uuid) == {v.key : v \in {w \in validKeys : w.uuid = uuid}}

\* two finished runs that returned a key for the same team and were in flight
\* at the same time: each started before the other sent its PUT
InterleavedSuccesses(a, b) ==
    /\ a # b
    /\ issue[a].pc = "done" /\ issue[b].pc = "done"
    /\ issue[a].result.kind = "api_key" /\ issue[b].result.kind = "api_key"
    /\ issue[a].put_uuid = issue[b].put_uuid
    /\ issue[a].started_at < issue[b].put_at
    /\ issue[b].started_at < issue[a].put_at

\* C16: when two interleaved runs for the same team have both returned success,
\* their keys are distinct, the team has exactly one active key, which is the
\* key minted for the PUT the server processed last, and the caller whose PUT
\* was processed earlier holds a key that is not active.
C16_LastWriterWins ==
    \A a, b \in Callers :
        InterleavedSuccesses(a, b) =>
            LET uuid == issue[a].put_uuid
                last == IF issue[a].served_as > issue[b].served_as
                        THEN issue[a].served_as ELSE issue[b].served_as
            IN  /\ issue[a].result.key # issue[b].result.key
                /\ Cardinality(ActiveKeys(uuid)) = 1
                /\ last > 0 => ActiveKeys(uuid) = {ServerKey(last)}
                /\ issue[a].served_as < issue[b].served_as =>
                       issue[a].result.key \notin ActiveKeys(uuid)
                /\ \E c \in {a, b} : issue[c].result.key \notin ActiveKeys(uuid)

\* both runs were served and handed the key the server minted for them; the
\* second caller's key is active and the first caller's is not
C16_Witness ==
    \E a, b \in Callers :
        /\ InterleavedSuccesses(a, b)
        /\ issue[a].body = "key" /\ issue[b].body = "key"
        /\ issue[a].served_as < issue[b].served_as
        /\ issue[b].result.key \in ActiveKeys(issue[b].put_uuid)
        /\ issue[a].result.key \notin ActiveKeys(issue[a].put_uuid)

----------------------------------------------------------------------------
\* C17: the raw authentication call last made succeeded, so that the login
\* returned, exactly when its answer had status 200 and a body beginning with
\* `eyJ`; after any other answer or a transport failure it has failed with the
\* authentication error and the client holds no token.
C17_RawCallSucceedsIffToken ==
    (login.calls # <<>> /\ login.calls[Len(login.calls)].op = "auth") =>
        LET answer == login.calls[Len(login.calls)].answer IN
        /\ RawSuccess(answer) <=> (login.pc = "done" /\ login.result.kind = "returned")
        /\ ~RawSuccess(answer) =>
              /\ login.jwt_token = NoToken
              /\ login.authorization = NoToken
              /\ login.pc = "done" =>
                    login.result \in {Raised("auth_failed"), Raised("resolved_rejected")}

----------------------------------------------------------------------------
\* C18: a login makes at most two raw authentication calls and at most one
\* directory request, never two raw calls for the same username, and ends in
\* one of three outcomes: success, identity not found, authentication failed.
C18_LoginTerminatesBounded ==
    /\ Cardinality(AuthCalls) <= 2
    /\ Cardinality(DirCalls) <= 1
    /\ \A i, j \in AuthCalls :
          login.calls[i].username = login.calls[j].username => i = j
    /\ login.pc = "done" =>
          \/ login.result.kind = "returned"
          \/ login.result = Raised("no_username")
          \/ login.result \in {Raised("auth_failed"), Raised("resolved_rejected")}

----------------------------------------------------------------------------
\* where the separators of the token decoded are
Dots == {i \in DOMAIN decoder.token : decoder.token[i] = "."}

\* the text between the first and the second separator of a three-segment token
SecondSegment ==
    LET d1 == FirstOf(Dots)
        d2 == CHOOSE i \in Dots : i # d1
    IN  SubSeq(decoder.token, d1 + 1, d2 - 1)

\* C19: for a token that does not split on '.' into exactly three segments, or
\* whose second segment is not the base64url text of a key-value map,
\* decode_jwt_payload returns the decode error (None) as a value.
C19_MalformedGivesDecodeError ==
    (decoder.pc = "done"
       /\ (Cardinality(Dots) # 2 \/ SecondSegment \notin MapSegments \cup PayloadSegments)) =>
        ~decoder.result.some

\* C20: the second segment, of length n, is padded with '=' to the smallest
\* multiple of 4 that is at least n, so a segment whose length is a multiple
\* of 4 already is decoded as it is.
C20_PaddedToNextMultipleOfFour ==
    (decoder.pc = "done" /\ Cardinality(Dots) = 2) =>
        LET n == Len(SecondSegment) IN
        /\ Len(decoder.result.padded) = CHOOSE m \in n..(n + 3) : m % 4 = 0
        /\ n % 4 = 0 => decoder.result.padded = SecondSegment

----------------------------------------------------------------------------
\* C21: round trip.  For every payload map holding sub, iat and exp, decoding
\* the three-segment token whose second segment is the unpadded base64url
\* text of the payload returns that map, whatever the segment's length is
\* modulo 4.
C21_RoundTrip ==
    decoder.pc = "done" =>
        \A d \in PayloadTexts :
            decoder.token = encode_for_test(d.text) =>
                decoder.result.some /\ decoder.result.val = d.value

\* a payload whose segment length is a multiple of 4 has been decoded
C21_Witness ==
    /\ decoder.pc = "done"
    /\ \E d \in PayloadTexts :
          /\ decoder.token = encode_for_test(d.text)
          /\ Len(urlsafe_b64encode_nopad(d.text)) % 4 = 0
          /\ decoder.result.val.members = {"sub:a", "iat:1", "exp:2"}

----------------------------------------------------------------------------
\* positions of the identities of the resolver's list whose username, or whose
\* e-mail, is the normalised identifier up to letter case
ByUsername ==
    {i \in DOMAIN lookup.answer.list :
        /\ HasKey(lookup.answer.list[i], "username")
        /\ lookup.answer.list[i].username # <<>>
        /\ SameLetters(lookup.answer.list[i].username, strip(lower(identifier)))}

ByEmail ==
    {i \in DOMAIN lookup.answer.list :
        /\ HasKey(lookup.answer.list[i], "email")
        /\ lookup.answer.list[i].email # <<>>
        /\ SameLetters(lookup.answer.list[i].email, strip(lower(identifier)))}

\* C22: the result says found_by = "username" exactly when the username of the
\* identity returned is the normalised identifier, and "email" otherwise; an
\* identifier that matches no username and some identity's e-mail, in any
\* letter case, returns the first such identity with found_by = "email".
C22_FoundBy ==
    (lookup.pc = "done" /\ lookup.result.kind = "user") =>
        /\ lookup.result.found_by = "username" <=> lookup.result.index \in ByUsername
        /\ lookup.result.found_by = "email" <=> lookup.result.index \notin ByUsername
        /\ (ByUsername = {} /\ ByEmail # {}) =>
              /\ lookup.result.index = FirstOf(ByEmail)
              /\ lookup.result.found_by = "email"

\* an identifier in capitals, with whitespace around it, found by e-mail only
C22_Witness ==
    /\ lookup.pc = "done"
    /\ lookup.result.found_by = "email"
    /\ identifier # strip(lower(identifier))
    /\ ByUsername = {}
    /\ lookup.result.index \in ByEmail

----------------------------------------------------------------------------
\* what _authenticate does to a client that holds no token, for the answer of
\* the i-th call of the login
CallEffect(i) ==
    _authenticate([jwt_token |-> NoToken, authorization |-> NoToken], login.calls[i].answer)

\* the raw authentication calls of the login that stored a token
TokenWrites == {i \in AuthCalls : CallEffect(i).client.jwt_token # NoToken}

\* C23: within one login the token is stored at most once, and only by a raw
\* authentication call that succeeded; a login that has failed, in whichever
\* way, holds the token it held before the call, which is none.
C23_TokenWrittenOnce ==
    /\ Cardinality(TokenWrites) <= 1
    /\ \A i \in TokenWrites : CallEffect(i).exc = "none"
    /\ (login.pc = "done" /\ login.result.kind = "raised") => login.jwt_token = NoToken

----------------------------------------------------------------------------
\* positions of the identities of a list whose e-mail is the trimmed,
\* lowercased identifier up to letter case
EmailMatches(list) ==
    {i \in DOMAIN list :
        HasKey(list[i], "email") /\ SameLetters(list[i].email, strip(lower(identifier)))}

\* C24: when the directory answered the e-mail lookup of a login with a list in
\* which some identity has the identifier as its e-mail, the lookup returned
\* the username of the first such identity, whatever the e-mail fields of the
\* other identities of the list are: the login goes on to the retry with that
\* username and does not report the identity as not found.
C24_EmailLookupFindsFirstMatch ==
    \A i \in DirCalls :
        LET list == login.calls[i].list IN
        (/\ login.calls[i].ok
         /\ EmailMatches(list) # {}
         /\ HasKey(list[FirstOf(EmailMatches(list))], "username")
         /\ list[FirstOf(EmailMatches(list))].username # <<>>) =>
            /\ login.username = list[FirstOf(EmailMatches(list))].username
            /\ login.result # Raised("no_username")

----------------------------------------------------------------------------
\* C25: after every completed authentication call, returned or raised, a
\* client that holds a token has `Bearer <that token>` as the Authorization
\* header of its session; a request that went out with a header differing
\* from the token held was sent between the two assignments of a login.
C25_HeaderMatchesToken ==
    /\ login.jwt_token # NoToken => login.authorization = login.jwt_token
    /\ (shared.pc = "idle" /\ shared.client.jwt_token # NoToken) =>
          shared.client.authorization = shared.client.jwt_token
    /\ (shared.seen.some /\ shared.seen.header # shared.seen.token) => shared.seen.mid

\* a request sent while a second login was replacing the token: it carried the
\* former token in its header; the login has since completed
C25_Witness ==
    /\ shared.pc = "idle"
    /\ shared.seen.some
    /\ shared.seen.header # NoToken
    /\ shared.seen.header # shared.seen.token
    /\ shared.client.authorization = shared.client.jwt_token
    /\ shared.client.jwt_token = shared.seen.token

----------------------------------------------------------------------------
\* C26: when the login script reports success, the username it prints equals
\* the authenticated_as it prints, case-insensitively.
C26_ReportedUserIsAuthenticatedUser ==
    (loginMain.pc = "exit" /\ loginMain.code = 0) =>
        LET result == loginMain.stdout[Len(loginMain.stdout)] IN
        result.success => lower(result.username) = lower(result.authenticated_as)

----------------------------------------------------------------------------
\* the answer is yes or y, leading and trailing blanks and letter case aside
IsYes(response) == lower(strip(response)) \in { <<"y", "e", "s">>, <<"y">> }

\* the keys the server accepts for a team
KeysOf(keys, uuid) == {v \in keys : v.uuid = uuid}

\* C27: a run without auto-confirm sends the rotate request only after the
\* operator answered yes or y; a step that takes the operator's answer and does
\* not go on to the request ends the run as cancelled, sends nothing and
\* leaves the server's keys as they were.  Both copies of the key generator.
C27_NoRotateWithoutYes ==
    [][ /\ \A c \in Callers :
             /\ issue'[c].puts > issue[c].puts =>
                   /\ issue[c].pc = "rotate"
                   /\ issue[c].auto_confirm \/ IsYes(issue[c].response)
             /\ (issue[c].pc = "confirm" /\ issue'[c] # issue[c]) =>
                   \/ issue'[c].pc = "rotate" /\ IsYes(issue'[c].response)
                   \/ /\ issue'[c].pc = "done"
                      /\ issue'[c].result.kind = "cancelled"
                      /\ issue'[c].puts = issue[c].puts
                      /\ validKeys' = validKeys
        /\ cli'.puts > cli.puts =>
              /\ cli.pc = "rotate"
              /\ cli.auto_confirm \/ IsYes(cli.response)
        /\ (cli.pc = "confirm" /\ cli' # cli) =>
              \/ cli'.pc = "rotate" /\ IsYes(cli'.response)
              \/ /\ cli'.pc = "confirm"
                 /\ ~IsYes(cli'.response)
                 /\ cli'.puts = cli.puts
                 /\ validKeys' = validKeys
              \/ /\ cli'.pc = "done"
                 /\ cli'.result.kind = "cancelled"
                 /\ cli'.puts = cli.puts
                 /\ validKeys' = validKeys
      ]_vars

\* a run of the command-line generator that the operator declined: cancelled,
\* nothing sent, every team's key the one it had
C27_Witness ==
    /\ cli.pc = "done" /\ ~cli.auto_confirm /\ cli.asked
    /\ cli.result.kind = "cancelled"
    /\ cli.puts = 0
    /\ KeysOf(validKeys, cli.uuid) # {}
    /\ \A i \in DOMAIN teams :
          [uuid |-> teams[i].uuid, key |-> ServerKey(i)] \in validKeys

----------------------------------------------------------------------------
\* the run found no team of the requested name and said so
SaidNotFound == \E i \in DOMAIN cli.stdout : cli.stdout[i] = "not_found"

\* the names, in list order, that contain the requested name, letter case aside
NearMatches ==
    LET near(t) == HasKey(t, "name") /\ IsSubstring(lower(cli.team_name), lower(t.name))
        picked  == SelectSeq(teams, near)
    IN  [i \in DOMAIN picked |-> picked[i].name]

\* C28: when no team matches the requested name, the run ends with the
\* team-not-found result whether or not the team-list fetch made for the hint
\* succeeds, and a hint that was fetched lists exactly the teams whose name
\* contains the requested name as a case-insensitive substring.
C28_HintIsNonFatal ==
    (cli.pc = "done" /\ SaidNotFound) =>
        /\ cli.result.kind = "not_found"
        /\ cli.hint_fetch = "ok" => cli.hint = NearMatches

----------------------------------------------------------------------------
\* C29: the web front-end runs the key-issuance script for /api/generate_token
\* only in a session whose logged_in flag is set.
C29_GenerateTokenNeedsLogin ==
    (web.last.route = "generate_token" /\ web.last.ran = "dt_generate_api_key.py") =>
        LoggedIn(web.session)

----------------------------------------------------------------------------
\* the request of this step, if the step is one of the web front-end
Handled(route) == web' # web /\ web'.last.route = route

\* the login script exited 0 and its result carries no error
LoginScriptSucceeded(request) ==
    /\ request.ran = "dt_user_login.py"
    /\ request.returncode = 0
    /\ "error" \notin request.keys

\* C30: the logged_in flag is set only by a /login whose login script exited
\* successfully with a result carrying no error; it stays set until /logout;
\* /logout clears both logged_in and username; a failed login leaves the
\* session as it was.
C30_LoggedInFlag ==
    [][ /\ (LoggedIn(web'.session) /\ ~LoggedIn(web.session)) =>
              Handled("login") /\ LoginScriptSucceeded(web'.last)
        /\ (LoggedIn(web.session) /\ ~LoggedIn(web'.session)) => Handled("logout")
        /\ web'.last.route = "logout" =>
              ~HasKey(web'.session, "logged_in") /\ ~HasKey(web'.session, "username")
        /\ (Handled("login") /\ ~LoginScriptSucceeded(web'.last)) =>
              web'.session = web.session
      ]_vars

\* alice is logged in; a later login as bob failed and left the session as it was
C30_Witness ==
    /\ LoggedIn(web.session)
    /\ web.session.username = "alice"
    /\ web.last.route = "login"
    /\ web.last.username = "bob"
    /\ web.last.ran = "dt_user_login.py"
    /\ ~LoginScriptSucceeded(web.last)

====
